---- MODULE Spec2Model ----
(***************************************************************************)
(* Model of the wallet service (service.go): SendPayment as a Postgres     *)
(* transaction running under READ COMMITTED with                            *)
(*   SELECT ... WHERE id = $1 OR id = $2 ORDER BY id FOR UPDATE             *)
(* followed by two UPDATEs, one INSERT and COMMIT.  Each request is a      *)
(* process that advances one database round trip at a time, so every       *)
(* interleaving of concurrent requests is explored.                        *)
(*                                                                         *)
(* Amounts and balances are exact decimals; they are modelled as integers  *)
(* counted in the smallest unit in use (decimal.Decimal is arbitrary       *)
(* precision, so Add/Sub never round or overflow).                         *)
(***************************************************************************)
EXTENDS Integers, Sequences, FiniteSets, TLC

\* ---------------------------------------------------------------- bounds
NumProcs == 3       \* request slots that may run SendPayment concurrently
MaxCalls == 2       \* SendPayment calls started in one behaviour
MaxBalance == 2     \* largest provisioned balance of an account
MaxAmount == 1      \* largest amount requested

Procs == 1 .. NumProcs

\* ---------------------------------------------------------------- errors
\* The sentinel errors of service.go, by their messages.
ErrAccountNotFound == "account(s) not found"
ErrAccountNotSpecified == "two accounts must be specified"
ErrCurrencyMismatch == "accounts have different currencies"
ErrInsufficientBalance == "insufficient balance"
ErrInvalidAmount == "invalid amount"
ErrSameAccount == "cannot send a payment to the same account"
\* Any error returned by pgx (Begin, Query, Exec, Commit): not a sentinel.
ErrStore == "pgx error"
\* The nil error.
Nil == "nil"

\* ---------------------------------------------------------------- inputs
\* Rows of the accounts table (init-db.sh) in the order of ORDER BY id.
ExistingIDs == <<"alice456", "bob123", "eve789">>

\* Account ids a request may carry: the empty string, the three rows of
\* init-db.sh and an id with no row, listed in the textual order that
\* ORDER BY id uses.
IDOrder == <<"">> \o ExistingIDs \o <<"testid1">>

RequestIDs == {IDOrder[i] : i \in 1 .. Len(IDOrder)}

Amounts == (0 - 1) .. MaxAmount

IDRank(id) == CHOOSE i \in 1 .. Len(IDOrder) : IDOrder[i] = id

\* id1 sorts before id2 under ORDER BY id
IDLess(id1, id2) == IDRank(id1) < IDRank(id2)

Currency(id) == IF id = "eve789" THEN "RUB" ELSE "USD"

VARIABLES
    dbAccounts,     \* committed rows of table accounts: id -> [balance, currency]
    dbPayments,     \* committed rows of table payments, in commit order
    paymentsIdSeq,  \* last value handed out by the SERIAL sequence payments.id
    rowLock,        \* row id -> set of transactions holding its FOR UPDATE lock
    provisioned,    \* the accounts table as init-db.sh left it
    pc,             \* where each request is in SendPayment
    fromAccountID, toAccountID, amount,   \* arguments of the running call
    accounts,       \* rows received so far by the locked SELECT
    txWrites,       \* uncommitted writes of the transaction
    returned,       \* the call that returned last: arguments and outcome
    ncalls,         \* calls started so far
    listed,         \* what the last ListAccounts or ListPayments returned
    sendResponse,   \* HTTP response to the last POST /payments
    listResponse    \* HTTP response to the last GET /accounts or /payments

vars == <<dbAccounts, dbPayments, paymentsIdSeq, rowLock, provisioned, pc,
          fromAccountID, toAccountID, amount, accounts, txWrites, returned,
          ncalls, listed, sendResponse, listResponse>>

dbVars == <<dbAccounts, dbPayments>>

EmptyWrites == [balances |-> <<>>, payments |-> <<>>]

\* ------------------------------------------------------ pure code pieces

\* Variants of the parameter checks: without the amount check, without the
\* equal-ids check, and with the equal-ids check ahead of the empty-id one.
CheckParametersNoAmount(from, to, amt) ==
    IF from = "" \/ to = "" THEN ErrAccountNotSpecified
    ELSE IF from = to THEN ErrSameAccount
    ELSE Nil

CheckParametersNoSame(from, to, amt) ==
    IF from = "" \/ to = "" THEN ErrAccountNotSpecified
    ELSE IF ~(amt > 0) THEN ErrInvalidAmount
    ELSE Nil

CheckParametersSameFirst(from, to, amt) ==
    IF from = to THEN ErrSameAccount
    ELSE IF from = "" \/ to = "" THEN ErrAccountNotSpecified
    ELSE IF ~(amt > 0) THEN ErrInvalidAmount
    ELSE Nil

\* service.go 145-153: the parameter checks, in source order.
CheckParameters(from, to, amt) ==
    IF from = "" \/ to = "" THEN ErrAccountNotSpecified
    ELSE IF from = to THEN ErrSameAccount
    ELSE IF ~(amt > 0) THEN ErrInvalidAmount
    ELSE Nil

\* service.go 160: the rows matched by WHERE id = $1 OR id = $2, in the
\* order ORDER BY id FOR UPDATE visits and locks them.
MatchedRows(from, to) == {id \in DOMAIN dbAccounts : id = from \/ id = to}

\* Variant: the rows are locked in argument order, source first.
LockOrderArgs(from, to) ==
    LET m == MatchedRows(from, to)
    IN  IF from \in m /\ to \in m /\ from # to THEN <<from, to>>
        ELSE IF from \in m THEN <<from>>
        ELSE IF to \in m THEN <<to>>
        ELSE <<>>

\* The matched rows in ORDER BY id order.
LockOrder(from, to) ==
    LET m == MatchedRows(from, to)
    IN  IF m = {} THEN <<>>
        ELSE LET lo == CHOOSE id \in m : \A o \in m : o = id \/ IDLess(id, o)
             IN  IF m = {lo} THEN <<lo>>
                 ELSE <<lo, CHOOSE id \in m : id # lo>>

\* Variant: a plain SELECT, which never waits for a row lock.
NoRowLock(id, p) == TRUE

\* Variant: one lock for the whole table.
TableLock(id, p) == \A r \in DOMAIN rowLock : rowLock[r] \subseteq {p}

\* FOR UPDATE: the row can be locked by transaction p only when no other
\* transaction holds it.
CanLock(id, p) == rowLock[id] \subseteq {p}

\* service.go 168-173: accountsByID built from the rows received.
AccountsByID(rows) ==
    [id \in {rows[i].id : i \in 1 .. Len(rows)} |->
        LET i == CHOOSE j \in 1 .. Len(rows) : rows[j].id = id IN rows[i]]

\* service.go 181: the recomputed source balance.
NewFromBalance(rows, from, amt) == AccountsByID(rows)[from].balance - amt

\* Variant: the destination is debited instead of credited.
NewToBalanceSub(rows, to, amt) == AccountsByID(rows)[to].balance - amt

\* service.go 182: the recomputed destination balance.
NewToBalance(rows, to, amt) == AccountsByID(rows)[to].balance + amt

\* Variant: without the balance check.
CheckAccountsNoBalance(rows, from, to, amt) ==
    LET byID == AccountsByID(rows)
    IN  IF from \notin DOMAIN byID \/ to \notin DOMAIN byID
            THEN ErrAccountNotFound
        ELSE IF byID[from].currency # byID[to].currency
            THEN ErrCurrencyMismatch
        ELSE Nil

\* Variant: "not found" only when both rows are missing; a missing row
\* is then an account with no currency.
CheckAccountsBothMissing(rows, from, to, amt) ==
    LET byID == AccountsByID(rows)
    IN  IF from \notin DOMAIN byID /\ to \notin DOMAIN byID
            THEN ErrAccountNotFound
        ELSE IF from \notin DOMAIN byID \/ to \notin DOMAIN byID
            THEN ErrCurrencyMismatch
        ELSE IF byID[from].currency # byID[to].currency
            THEN ErrCurrencyMismatch
        ELSE IF NewFromBalance(rows, from, amt) < 0
            THEN ErrInsufficientBalance
        ELSE Nil

\* Variant: the balance check ahead of the currency check.
CheckAccountsBalanceFirst(rows, from, to, amt) ==
    LET byID == AccountsByID(rows)
    IN  IF from \notin DOMAIN byID \/ to \notin DOMAIN byID
            THEN ErrAccountNotFound
        ELSE IF NewFromBalance(rows, from, amt) < 0
            THEN ErrInsufficientBalance
        ELSE IF byID[from].currency # byID[to].currency
            THEN ErrCurrencyMismatch
        ELSE Nil

\* Variant: the new source balance must be positive, not just non-negative.
CheckAccountsNonPositive(rows, from, to, amt) ==
    LET byID == AccountsByID(rows)
    IN  IF from \notin DOMAIN byID \/ to \notin DOMAIN byID
            THEN ErrAccountNotFound
        ELSE IF byID[from].currency # byID[to].currency
            THEN ErrCurrencyMismatch
        ELSE IF ~(NewFromBalance(rows, from, amt) > 0)
            THEN ErrInsufficientBalance
        ELSE Nil

\* service.go 175-185: the checks on the rows received.
CheckAccounts(rows, from, to, amt) ==
    LET byID == AccountsByID(rows)
    IN  IF from \notin DOMAIN byID \/ to \notin DOMAIN byID
            THEN ErrAccountNotFound
        ELSE IF byID[from].currency # byID[to].currency
            THEN ErrCurrencyMismatch
        ELSE IF NewFromBalance(rows, from, amt) < 0
            THEN ErrInsufficientBalance
        ELSE Nil

\* Variant: the balances written are lost at commit.
CommitAccountsNone(db, w) == db

\* Variant: the commit also empties every account the transaction did not
\* write.
CommitAccountsResetOthers(db, w) ==
    [id \in DOMAIN db |->
        IF id \in DOMAIN w.balances
            THEN [db[id] EXCEPT !.balance = w.balances[id]]
            ELSE [db[id] EXCEPT !.balance = 0]]

\* tx.Commit: the accounts table once the writes w are committed.
CommitAccounts(db, w) ==
    [id \in DOMAIN db |->
        IF id \in DOMAIN w.balances
            THEN [db[id] EXCEPT !.balance = w.balances[id]]
            ELSE db[id]]

\* Variant: the inserted payment is lost at commit.
CommitPaymentsNone(pay, w) == pay

\* Variant: the commit leaves only the rows of this transaction in the
\* table.
CommitPaymentsReplace(pay, w) == w.payments

\* Variant: a payment equal to a committed one but for its id is not added.
CommitPaymentsDedup(pay, w) ==
    IF \E i \in 1 .. Len(pay) : \E j \in 1 .. Len(w.payments) :
           /\ pay[i].FromAccountID = w.payments[j].FromAccountID
           /\ pay[i].ToAccountID = w.payments[j].ToAccountID
           /\ pay[i].Amount = w.payments[j].Amount
       THEN pay
       ELSE pay \o w.payments

\* tx.Commit: the payments table once the writes w are committed.
CommitPayments(pay, w) == pay \o w.payments

\* Variant: the balances written so far survive the rollback.
RollbackKeepsWrites(db, w) ==
    [id \in DOMAIN db |->
        IF id \in DOMAIN w.balances
            THEN [db[id] EXCEPT !.balance = w.balances[id]]
            ELSE db[id]]

\* tx.Rollback (deferred, service.go 159): the accounts table once the
\* transaction is rolled back.
RollbackAccounts(db, w) == db

\* Variant: the locks of an ended transaction stay.
KeepLocks(p) == rowLock

\* Row locks once transaction p has ended (commit or rollback).
ReleaseLocks(p) == [id \in DOMAIN rowLock |-> rowLock[id] \ {p}]

\* ------------------------------------------------- endpoints, transport
\* transport: the error of a request body that does not decode.
ErrMalformedJSON == "unable to parse request"

\* net/http status codes used by codeFrom and encodeResponse.
StatusOK == 200
StatusBadRequest == 400
StatusForbidden == 403
StatusNotFound == 404
StatusInternalServerError == 500

\* Variant: every error of the parameter checks is a 403.
codeFromParameters403(err) ==
    IF err \in {ErrCurrencyMismatch, ErrInsufficientBalance, ErrInvalidAmount,
                ErrSameAccount, ErrAccountNotSpecified}
        THEN StatusForbidden
    ELSE IF err = ErrAccountNotFound THEN StatusNotFound
    ELSE IF err = ErrMalformedJSON THEN StatusBadRequest
    ELSE StatusInternalServerError

\* transport: codeFrom, the switch on the error value.
codeFrom(err) ==
    IF err \in {ErrCurrencyMismatch, ErrInsufficientBalance, ErrInvalidAmount,
                ErrSameAccount}
        THEN StatusForbidden
    ELSE IF err = ErrAccountNotFound THEN StatusNotFound
    ELSE IF err \in {ErrMalformedJSON, ErrAccountNotSpecified}
        THEN StatusBadRequest
    ELSE StatusInternalServerError

\* transport: encodeError; an error value is modelled by its message.
encodeError(err) ==
    LET code == codeFrom(err)
        msg == IF code = StatusInternalServerError
                  THEN "internal server error" ELSE err
    IN  [code |-> code, body |-> [error |-> msg]]

\* transport: encodeResponse; the field Err is omitted from the body when
\* it is nil (omitempty), and a non-nil Err goes to encodeError.
encodeResponse(response) ==
    IF response.Err # Nil
        THEN encodeError(response.Err)
        ELSE [code |-> StatusOK,
              body |-> [f \in DOMAIN response \ {"Err"} |-> response[f]]]

\* endpoints.go 41-51: the response of the send payment endpoint.
makeSendPaymentEndpoint(err) ==
    [status |-> IF err # Nil THEN "Payment failed"
                ELSE "Payment successfully sent",
     Err |-> err]

\* endpoints.go 22-36: the loop that appends two items for each payment;
\* an empty from_account or to_account is omitted from the JSON.
RECURSIVE PaymentItems(_)
PaymentItems(payments) ==
    IF payments = <<>> THEN <<>>
    ELSE LET payment == Head(payments)
         IN  <<[account |-> payment.FromAccountID, amount |-> payment.Amount,
                from_account |-> "", to_account |-> payment.ToAccountID,
                direction |-> "outgoing"],
               [account |-> payment.ToAccountID, amount |-> payment.Amount,
                from_account |-> payment.FromAccountID, to_account |-> "",
                direction |-> "incoming"]>>
             \o PaymentItems(Tail(payments))

\* Variant: one item per payment, the outgoing one.
makeListPaymentsEndpointOutgoing(payments, err) ==
    [payments |->
        [k \in 1 .. Len(payments) |->
            [account |-> payments[k].FromAccountID,
             amount |-> payments[k].Amount,
             from_account |-> "", to_account |-> payments[k].ToAccountID,
             direction |-> "outgoing"]],
     Err |-> err]

\* endpoints.go 18-39: the response of the list payments endpoint.
makeListPaymentsEndpoint(payments, err) ==
    [payments |-> PaymentItems(payments), Err |-> err]

\* endpoints.go 10-16: the response of the list accounts endpoint.
makeListAccountsEndpoint(accs, err) == [accounts |-> accs, Err |-> err]

\* ---------------------------------------------------------------- Init
Init ==
    \* alice456 is the account that is short of funds, bob123 the funded one
    /\ \E ba \in 0 .. 1 : \E bb \in 1 .. MaxBalance :
          dbAccounts =
            [id \in {ExistingIDs[i] : i \in 1 .. Len(ExistingIDs)} |->
                [id |-> id,
                 balance |-> IF id = "alice456" THEN ba
                             ELSE IF id = "bob123" THEN bb ELSE MaxBalance,
                 currency |-> Currency(id)]]
    /\ provisioned = dbAccounts
    /\ dbPayments = <<>>
    /\ paymentsIdSeq = 0
    /\ rowLock = [id \in DOMAIN dbAccounts |-> {}]
    /\ pc = [p \in Procs |-> "idle"]
    /\ fromAccountID = [p \in Procs |-> ""]
    /\ toAccountID = [p \in Procs |-> ""]
    /\ amount = [p \in Procs |-> 0]
    /\ accounts = [p \in Procs |-> <<>>]
    /\ txWrites = [p \in Procs |-> EmptyWrites]
    /\ returned = <<>>
    /\ ncalls = 0
    /\ listed = <<>>
    /\ sendResponse = <<>>
    /\ listResponse = <<>>

\* ---------------------------------------------------------------- actions

\* Request p returns e to its caller and its slot is free again.  began
\* tells whether s.db.Begin had succeeded, rerr is rows.Err() of the locked
\* SELECT (never read by the code).
Return(p, from, to, amt, e, began, rerr) ==
    /\ returned' = <<[fromAccountID |-> from, toAccountID |-> to,
                      amount |-> amt, err |-> e, tx |-> began,
                      rowsErr |-> rerr]>>
    /\ pc' = [pc EXCEPT ![p] = "idle"]
    /\ fromAccountID' = [fromAccountID EXCEPT ![p] = ""]
    /\ toAccountID' = [toAccountID EXCEPT ![p] = ""]
    /\ amount' = [amount EXCEPT ![p] = 0]
    /\ accounts' = [accounts EXCEPT ![p] = <<>>]
    /\ txWrites' = [txWrites EXCEPT ![p] = EmptyWrites]
    /\ sendResponse' = <<encodeResponse(makeSendPaymentEndpoint(e))>>
    /\ UNCHANGED <<listed, listResponse>>

\* A begun transaction returns e: the deferred tx.Rollback (service.go 159)
\* discards its writes and releases its locks.
ReturnError(p, e, rerr) ==
    /\ Return(p, fromAccountID[p], toAccountID[p], amount[p], e, TRUE, rerr)
    /\ dbAccounts' = RollbackAccounts(dbAccounts, txWrites[p])
    /\ dbPayments' = dbPayments
    /\ rowLock' = ReleaseLocks(p)
    /\ UNCHANGED <<paymentsIdSeq, provisioned, ncalls>>

\* service.go 143-159: entry of SendPayment, the parameter checks and a
\* successful s.db.Begin.  Slots are symmetric; a call takes the lowest
\* idle one.
SendPayment(p, from, to, amt) ==
    LET e == CheckParameters(from, to, amt)
    IN  /\ pc[p] = "idle"
        /\ \A q \in Procs : q < p => pc[q] # "idle"
        /\ ncalls' = ncalls + 1
        /\ IF e # Nil
              THEN Return(p, from, to, amt, e, FALSE, FALSE)
              ELSE /\ pc' = [pc EXCEPT ![p] = "query"]
                   /\ fromAccountID' = [fromAccountID EXCEPT ![p] = from]
                   /\ toAccountID' = [toAccountID EXCEPT ![p] = to]
                   /\ amount' = [amount EXCEPT ![p] = amt]
                   /\ UNCHANGED <<listed, sendResponse, listResponse,
                       accounts, txWrites, returned>>
        /\ UNCHANGED <<dbAccounts, dbPayments, paymentsIdSeq, rowLock,
                       provisioned>>

\* service.go 143-158: the parameters pass the checks and s.db.Begin fails.
BeginFails(p, from, to, amt) ==
    /\ pc[p] = "idle"
    /\ \A q \in Procs : q < p => pc[q] # "idle"
    /\ CheckParameters(from, to, amt) = Nil
    /\ ncalls' = ncalls + 1
    /\ Return(p, from, to, amt, ErrStore, FALSE, FALSE)
    /\ UNCHANGED <<dbAccounts, dbPayments, paymentsIdSeq, rowLock,
                   provisioned>>

\* service.go 160-163: tx.Query itself returns an error.
QueryFails(p) ==
    /\ pc[p] = "query"
    /\ accounts[p] = <<>>
    /\ ReturnError(p, ErrStore, FALSE)

\* service.go 160: the locked SELECT takes the FOR UPDATE lock of its next
\* row, in ORDER BY id order, waiting while another transaction holds it,
\* and returns the row's latest committed version.
LockRow(p) ==
    LET order == LockOrder(fromAccountID[p], toAccountID[p])
        k == Len(accounts[p]) + 1
    IN  /\ pc[p] = "query"
        /\ k <= Len(order)
        /\ CanLock(order[k], p)
        /\ rowLock' = [rowLock EXCEPT ![order[k]] = @ \cup {p}]
        /\ accounts' = [accounts EXCEPT ![p] = Append(@, dbAccounts[order[k]])]
        /\ UNCHANGED <<listed, sendResponse, listResponse,
                       dbAccounts, dbPayments, paymentsIdSeq,
                       provisioned,
                       pc, fromAccountID, toAccountID, amount, txWrites,
                       returned, ncalls>>

\* service.go 164-185: getAccounts has read every row; the checks on them.
GetAccounts(p) ==
    LET e == CheckAccounts(accounts[p], fromAccountID[p], toAccountID[p],
                           amount[p])
    IN  /\ pc[p] = "query"
        /\ Len(accounts[p]) = Len(LockOrder(fromAccountID[p], toAccountID[p]))
        /\ IF e # Nil
              THEN ReturnError(p, e, FALSE)
              ELSE /\ pc' = [pc EXCEPT ![p] = "update_from"]
                   /\ UNCHANGED <<listed, sendResponse, listResponse,
                       dbAccounts, dbPayments, paymentsIdSeq,
                                  rowLock, provisioned, fromAccountID,
                                  toAccountID, amount, accounts, txWrites,
                                  returned, ncalls>>

\* service.go 97, 109 and 164-198: the SELECT fails or is interrupted while
\* its rows are read (connection lost, context cancelled while waiting for
\* a row lock).  rows.Next() returns false, getAccounts returns the n rows
\* received so far with a nil error, and SendPayment goes on with them;
\* if they pass the checks, the next tx.Exec fails on the broken
\* transaction.
RowsFail(p, n) ==
    LET got == SubSeq(accounts[p], 1, n)
        e == CheckAccounts(got, fromAccountID[p], toAccountID[p], amount[p])
    IN  /\ pc[p] = "query"
        /\ n <= Len(accounts[p])
        /\ ReturnError(p, IF e # Nil THEN e ELSE ErrStore, TRUE)

\* service.go 187: UPDATE of the source balance, inside the transaction.
UpdateFrom(p) ==
    /\ pc[p] = "update_from"
    /\ txWrites' = [txWrites EXCEPT ![p].balances =
           (fromAccountID[p] :> NewFromBalance(accounts[p], fromAccountID[p],
                                               amount[p])) @@ @]
    /\ pc' = [pc EXCEPT ![p] = "update_to"]
    /\ UNCHANGED <<listed, sendResponse, listResponse,
                       dbAccounts, dbPayments, paymentsIdSeq, rowLock,
                   provisioned, fromAccountID, toAccountID, amount,
                   accounts, returned, ncalls>>

\* service.go 191: UPDATE of the destination balance.
UpdateTo(p) ==
    /\ pc[p] = "update_to"
    /\ txWrites' = [txWrites EXCEPT ![p].balances =
           (toAccountID[p] :> NewToBalance(accounts[p], toAccountID[p],
                                           amount[p])) @@ @]
    /\ pc' = [pc EXCEPT ![p] = "insert"]
    /\ UNCHANGED <<listed, sendResponse, listResponse,
                       dbAccounts, dbPayments, paymentsIdSeq, rowLock,
                   provisioned, fromAccountID, toAccountID, amount,
                   accounts, returned, ncalls>>

\* service.go 195: INSERT of the payment; the SERIAL id is taken from the
\* sequence at once, outside transactional control.
InsertPayment(p) ==
    /\ pc[p] = "insert"
    /\ paymentsIdSeq' = paymentsIdSeq + 1
    /\ txWrites' = [txWrites EXCEPT ![p].payments =
           Append(@, [ID |-> paymentsIdSeq + 1,
                      FromAccountID |-> fromAccountID[p],
                      ToAccountID |-> toAccountID[p],
                      Amount |-> amount[p]])]
    /\ pc' = [pc EXCEPT ![p] = "commit"]
    /\ UNCHANGED <<listed, sendResponse, listResponse,
                       dbAccounts, dbPayments, rowLock, provisioned,
                   fromAccountID, toAccountID, amount, accounts, returned,
                   ncalls>>

\* service.go 187-198: one of the three tx.Exec calls fails.
ExecFails(p) ==
    /\ pc[p] \in {"update_from", "update_to", "insert"}
    /\ ReturnError(p, ErrStore, FALSE)

\* service.go 199-203: tx.Commit succeeds; the writes become visible, the
\* locks are released and the call returns nil.
Commit(p) ==
    /\ pc[p] = "commit"
    /\ dbAccounts' = CommitAccounts(dbAccounts, txWrites[p])
    /\ dbPayments' = CommitPayments(dbPayments, txWrites[p])
    /\ rowLock' = ReleaseLocks(p)
    /\ Return(p, fromAccountID[p], toAccountID[p], amount[p], Nil, TRUE, FALSE)
    /\ UNCHANGED <<paymentsIdSeq, provisioned, ncalls>>

\* service.go 199-202: tx.Commit fails; the transaction is rolled back.
CommitFails(p) ==
    /\ pc[p] = "commit"
    /\ ReturnError(p, ErrStore, FALSE)

\* One database round trip (or its failure) of request p.
Step(p) ==
    \/ QueryFails(p)
    \/ LockRow(p)
    \/ GetAccounts(p)
    \/ \E n \in 0 .. 2 : RowsFail(p, n)
    \/ UpdateFrom(p)
    \/ UpdateTo(p)
    \/ InsertPayment(p)
    \/ ExecFails(p)
    \/ Commit(p)
    \/ CommitFails(p)

Next ==
    \E p \in Procs :
        \/ /\ ncalls < MaxCalls
           /\ \E from, to \in RequestIDs : \E amt \in Amounts :
                 \/ SendPayment(p, from, to, amt)
                 \/ BeginFails(p, from, to, amt)
        \/ Step(p)

Spec == Init /\ [][Next]_vars

\* ---------------------------------------------------------------- lists
\* Variant: the SELECT also sees the balances written by transactions that
\* have not committed.
SelectAccountsDirty(db) ==
    LET ids == SelectSeq(IDOrder, LAMBDA id : id \in DOMAIN db)
        seen(id) ==
            IF \E p \in Procs : id \in DOMAIN txWrites[p].balances
               THEN LET p == CHOOSE q \in Procs :
                                 id \in DOMAIN txWrites[q].balances
                    IN  [db[id] EXCEPT !.balance = txWrites[p].balances[id]]
               ELSE db[id]
    IN  [i \in 1 .. Len(ids) |-> seen(ids[i])]

\* service.go 113: SELECT id, balance, currency FROM accounts ORDER BY id,
\* one statement under READ COMMITTED: the committed rows, by id.
SelectAccounts(db) ==
    LET ids == SelectSeq(IDOrder, LAMBDA id : id \in DOMAIN db)
    IN  [i \in 1 .. Len(ids) |-> db[ids[i]]]

\* Variant: the rows come back in the order in which they were committed.
SelectPaymentsUnordered(pay) == pay

\* service.go 122: SELECT ... FROM payments ORDER BY id on the committed
\* rows.
SelectPayments(pay) ==
    LET recs == {pay[i] : i \in 1 .. Len(pay)}
    IN  [k \in 1 .. Len(pay) |->
            CHOOSE r \in recs :
                Cardinality({x \in recs : x.ID < r.ID}) = k - 1]

\* A list call returns rows and e to its caller; rerr is rows.Err() of its
\* SELECT (never read by the code).
ListReturn(kind, rows, e, rerr) ==
    /\ listed' = <<[kind |-> kind, rows |-> rows, err |-> e,
                    rowsErr |-> rerr]>>
    /\ listResponse' =
          <<encodeResponse(IF kind = "payments"
                              THEN makeListPaymentsEndpoint(rows, e)
                              ELSE makeListAccountsEndpoint(rows, e))>>
    /\ UNCHANGED <<dbAccounts, dbPayments, paymentsIdSeq, rowLock,
                   provisioned, pc, fromAccountID, toAccountID, amount,
                   accounts, txWrites, returned, ncalls, sendResponse>>

\* service.go 112-118: ListAccounts, every row read.
ListAccounts ==
    ListReturn("accounts", SelectAccounts(dbAccounts), Nil, FALSE)

\* service.go 113-116: s.db.Query fails.
ListAccountsQueryFails == ListReturn("accounts", <<>>, ErrStore, FALSE)

\* service.go 96, 109: rows.Next() is false after n rows because the read
\* failed; getAccounts returns those rows and nil.
ListAccountsRowsFail(n) ==
    /\ n <= Len(SelectAccounts(dbAccounts))
    /\ ListReturn("accounts", SubSeq(SelectAccounts(dbAccounts), 1, n), Nil,
                  TRUE)

\* service.go 120-141: ListPayments, every row read.
ListPayments ==
    ListReturn("payments", SelectPayments(dbPayments), Nil, FALSE)

\* service.go 122-125: s.db.Query fails.
ListPaymentsQueryFails == ListReturn("payments", <<>>, ErrStore, FALSE)

\* service.go 126, 140: rows.Next() is false after n rows because the read
\* failed; the loop ends and the rows so far are returned with nil.
ListPaymentsRowsFail(n) ==
    /\ n <= Len(dbPayments)
    /\ ListReturn("payments", SubSeq(SelectPayments(dbPayments), 1, n), Nil,
                  TRUE)

\* transport: decodeSendPaymentRequest fails on the body of a POST
\* /payments; the server answers through encodeError and the endpoint is
\* not called.
DecodeSendPaymentRequestFails ==
    /\ sendResponse' = <<encodeError(ErrMalformedJSON)>>
    /\ UNCHANGED <<dbAccounts, dbPayments, paymentsIdSeq, rowLock,
                   provisioned, pc, fromAccountID, toAccountID, amount,
                   accounts, txWrites, returned, ncalls, listed,
                   listResponse>>

\* ------------------------------------------------- further specifications
\* The accounts table in the proportions of init-db.sh: alice456 holding
\* less than any amount, bob123 funded.
InitHTTP ==
    /\ Init
    /\ dbAccounts["alice456"].balance = 0
    /\ dbAccounts["bob123"].balance = MaxBalance

\* The requests of Next arriving over HTTP, some with a body that does not
\* decode.
NextHTTP ==
    \/ Next
    \/ DecodeSendPaymentRequestFails

SpecHTTP == InitHTTP /\ [][NextHTTP]_vars

\* N = NumProcs transfers of the same amount from bob123 to alice456, bob123
\* holding exactly N times the amount, with a store that does not fail.
InitSame ==
    /\ \E ba \in 0 .. MaxBalance :
          dbAccounts =
            [id \in {ExistingIDs[i] : i \in 1 .. Len(ExistingIDs)} |->
                [id |-> id,
                 balance |-> IF id = "alice456" THEN ba
                             ELSE IF id = "bob123" THEN NumProcs * MaxAmount
                             ELSE MaxBalance,
                 currency |-> Currency(id)]]
    /\ provisioned = dbAccounts
    /\ dbPayments = <<>>
    /\ paymentsIdSeq = 0
    /\ rowLock = [id \in DOMAIN dbAccounts |-> {}]
    /\ pc = [p \in Procs |-> "idle"]
    /\ fromAccountID = [p \in Procs |-> ""]
    /\ toAccountID = [p \in Procs |-> ""]
    /\ amount = [p \in Procs |-> 0]
    /\ accounts = [p \in Procs |-> <<>>]
    /\ txWrites = [p \in Procs |-> EmptyWrites]
    /\ returned = <<>>
    /\ ncalls = 0
    /\ listed = <<>>
    /\ sendResponse = <<>>
    /\ listResponse = <<>>

\* One database round trip of request p when the store does not fail.
StepOK(p) ==
    \/ LockRow(p)
    \/ GetAccounts(p)
    \/ UpdateFrom(p)
    \/ UpdateTo(p)
    \/ InsertPayment(p)
    \/ Commit(p)

NextSame ==
    \E p \in Procs :
        \/ /\ ncalls < NumProcs
           /\ SendPayment(p, "bob123", "alice456", MaxAmount)
        \/ StepOK(p)

SpecSame == InitSame /\ [][NextSame]_vars

\* N = NumProcs transfers from bob123 to alice456, bob123 holding the
\* largest amount a request carries, so that the amounts of any
\* MaxAmount + 1 of them exceed what bob123 holds; nothing credits bob123
\* and the store does not fail.
InitSpend ==
    /\ \E ba \in 0 .. MaxBalance :
          dbAccounts =
            [id \in {ExistingIDs[i] : i \in 1 .. Len(ExistingIDs)} |->
                [id |-> id,
                 balance |-> IF id = "alice456" THEN ba
                             ELSE IF id = "bob123" THEN MaxAmount
                             ELSE MaxBalance,
                 currency |-> Currency(id)]]
    /\ provisioned = dbAccounts
    /\ dbPayments = <<>>
    /\ paymentsIdSeq = 0
    /\ rowLock = [id \in DOMAIN dbAccounts |-> {}]
    /\ pc = [p \in Procs |-> "idle"]
    /\ fromAccountID = [p \in Procs |-> ""]
    /\ toAccountID = [p \in Procs |-> ""]
    /\ amount = [p \in Procs |-> 0]
    /\ accounts = [p \in Procs |-> <<>>]
    /\ txWrites = [p \in Procs |-> EmptyWrites]
    /\ returned = <<>>
    /\ ncalls = 0
    /\ listed = <<>>
    /\ sendResponse = <<>>
    /\ listResponse = <<>>

NextSpend ==
    \E p \in Procs :
        \/ /\ ncalls < NumProcs
           /\ \E amt \in 1 .. MaxAmount :
                 SendPayment(p, "bob123", "alice456", amt)
        \/ StepOK(p)

SpecSpend == InitSpend /\ [][NextSpend]_vars

\* As many transfers as there are accounts, each between two existing
\* accounts in either direction, with a store that does not fail; every
\* request that can take a step eventually takes one.
NextRing ==
    \E p \in Procs :
        \/ /\ ncalls < Len(ExistingIDs)
           /\ \E i, j \in 1 .. Len(ExistingIDs) :
                 SendPayment(p, ExistingIDs[i], ExistingIDs[j], MaxAmount)
        \/ StepOK(p)

FairSpec == Init /\ [][NextRing]_vars /\ \A p \in Procs : WF_vars(StepOK(p))

\* An accounts table with a fourth row, so that two pairs of accounts of
\* one currency each exist: alice456 and bob123 in USD, eve789 and testid1
\* in RUB.
InitPairs ==
    /\ \E ba \in 0 .. 1 :
          dbAccounts =
            [id \in {ExistingIDs[i] : i \in 1 .. Len(ExistingIDs)}
                    \cup {"testid1"} |->
                [id |-> id,
                 balance |-> IF id = "alice456" THEN ba
                             ELSE IF id = "testid1" THEN 0 ELSE MaxBalance,
                 currency |-> IF id = "testid1" THEN "RUB" ELSE Currency(id)]]
    /\ provisioned = dbAccounts
    /\ dbPayments = <<>>
    /\ paymentsIdSeq = 0
    /\ rowLock = [id \in DOMAIN dbAccounts |-> {}]
    /\ pc = [p \in Procs |-> "idle"]
    /\ fromAccountID = [p \in Procs |-> ""]
    /\ toAccountID = [p \in Procs |-> ""]
    /\ amount = [p \in Procs |-> 0]
    /\ accounts = [p \in Procs |-> <<>>]
    /\ txWrites = [p \in Procs |-> EmptyWrites]
    /\ returned = <<>>
    /\ ncalls = 0
    /\ listed = <<>>
    /\ sendResponse = <<>>
    /\ listResponse = <<>>

\* The transfers inside the two pairs, in both directions.
PairRequests ==
    {<<"bob123", "alice456">>, <<"alice456", "bob123">>,
     <<"eve789", "testid1">>, <<"testid1", "eve789">>}

\* Transfers inside the two pairs, with a store that may fail, and the two
\* list calls at any moment.
NextPairs ==
    \/ \E p \in Procs :
        \/ /\ ncalls < MaxCalls
           /\ \E r \in PairRequests : \E amt \in 1 .. MaxAmount :
                 SendPayment(p, r[1], r[2], amt)
        \/ Step(p)
    \/ ListAccounts
    \/ ListAccountsQueryFails
    \/ \E n \in 0 .. Cardinality(DOMAIN dbAccounts) : ListAccountsRowsFail(n)
    \/ ListPayments
    \/ ListPaymentsQueryFails
    \/ \E n \in 0 .. MaxCalls : ListPaymentsRowsFail(n)

SpecPairs == InitPairs /\ [][NextPairs]_vars

\* ---------------------------------------------------------------- helpers

\* Request p is waiting for a row lock that request q holds.
WaitsFor(p, q) ==
    LET order == LockOrder(fromAccountID[p], toAccountID[p])
        k == Len(accounts[p]) + 1
    IN  /\ p # q
        /\ pc[p] = "query"
        /\ k <= Len(order)
        /\ q \in rowLock[order[k]]

\* Request p returns in this step (from inside a transaction).
Returns(p) == pc[p] # "idle" /\ pc'[p] = "idle"

\* Sum of the amounts of the payments in pay that satisfy the test on
\* (FromAccountID, ToAccountID).
RECURSIVE SumTo(_, _)
SumTo(pay, id) ==
    IF pay = <<>> THEN 0
    ELSE (IF Head(pay).ToAccountID = id THEN Head(pay).Amount ELSE 0)
         + SumTo(Tail(pay), id)

RECURSIVE SumFrom(_, _)
SumFrom(pay, id) ==
    IF pay = <<>> THEN 0
    ELSE (IF Head(pay).FromAccountID = id THEN Head(pay).Amount ELSE 0)
         + SumFrom(Tail(pay), id)

\* The payment record without its identifier.
Transfer(rec) == [FromAccountID |-> rec.FromAccountID,
                  ToAccountID |-> rec.ToAccountID, Amount |-> rec.Amount]

\* ---------------------------------------------------------------- claims

\* C1: a call that returns success commits, for the source, the balance it
\* read under lock minus the amount and, for the destination, the balance it
\* read under lock plus the amount; the balances it read are still the
\* committed ones when it commits, so the sum of the two committed balances
\* is the same before and after the commit.
C1_Conservation ==
    [][\A p \in Procs :
          (Returns(p) /\ returned'[1].err = Nil) =>
              LET from == fromAccountID[p]
                  to == toAccountID[p]
                  read == AccountsByID(accounts[p])
              IN  /\ dbAccounts'[from].balance = read[from].balance - amount[p]
                  /\ dbAccounts'[to].balance = read[to].balance + amount[p]
                  /\ dbAccounts'[from].balance + dbAccounts'[to].balance
                        = dbAccounts[from].balance + dbAccounts[to].balance
      ]_vars

\* A transfer from bob123 to alice456 has returned success while another
\* request is in flight, and the balances moved by its amount.
C1_Witness ==
    /\ returned # <<>>
    /\ returned[1].err = Nil
    /\ returned[1].fromAccountID = "bob123"
    /\ returned[1].toAccountID = "alice456"
    /\ \E q \in Procs : pc[q] # "idle"
    /\ dbAccounts["bob123"].balance
          = provisioned["bob123"].balance - returned[1].amount
    /\ dbAccounts["alice456"].balance
          = provisioned["alice456"].balance + returned[1].amount

\* C2: every committed balance is >= 0 in every reachable state.
C2_NoNegativeBalance ==
    \A id \in DOMAIN dbAccounts : dbAccounts[id].balance >= 0

\* An account provisioned with funds has been drained to exactly 0 and a
\* later transfer out of it was refused.
C2_Witness ==
    /\ returned # <<>>
    /\ returned[1].err = ErrInsufficientBalance
    /\ provisioned[returned[1].fromAccountID].balance > 0
    /\ dbAccounts[returned[1].fromAccountID].balance = 0

C4_ConcurrentTransfers ==
    /\ returned # <<>> => returned[1].err = Nil
    /\ (ncalls = NumProcs /\ \A p \in Procs : pc[p] = "idle") =>
          /\ dbAccounts["bob123"].balance = 0
          /\ dbAccounts["alice456"].balance
                = provisioned["alice456"].balance + NumProcs * MaxAmount
          /\ Len(dbPayments) = NumProcs

\* All N calls have returned and the source is empty.
C4_Witness ==
    /\ ncalls = NumProcs
    /\ \A p \in Procs : pc[p] = "idle"
    /\ Len(dbPayments) = NumProcs
    /\ dbAccounts["bob123"].balance = 0

\* C5: no set of requests waits in a cycle for each other's row locks, and
\* under fair scheduling every request inside a transaction returns.
NoWaitCycle ==
    ~ \E S \in SUBSET Procs :
          /\ S # {}
          /\ \A p \in S : \E q \in S : WaitsFor(p, q)

C5_NoDeadlock ==
    /\ []NoWaitCycle
    /\ \A p \in Procs : (pc[p] # "idle") ~> (pc[p] = "idle")

\* A chain of waiters over three accounts: one request waits for a second,
\* which waits for a third.
C5_Witness ==
    \E p, q, r \in Procs :
        /\ WaitsFor(p, q)
        /\ WaitsFor(q, r)
        /\ p # r
        /\ {fromAccountID[p], toAccountID[p]} # {fromAccountID[q], toAccountID[q]}
        /\ {fromAccountID[q], toAccountID[q]} # {fromAccountID[r], toAccountID[r]}
        /\ {fromAccountID[p], toAccountID[p]} # {fromAccountID[r], toAccountID[r]}

\* C6: each committed balance is the provisioned balance plus the committed
\* payments to the account minus the committed payments from it.
C6_LedgerConsistent ==
    \A id \in DOMAIN dbAccounts :
        dbAccounts[id].balance =
            provisioned[id].balance + SumTo(dbPayments, id)
                - SumFrom(dbPayments, id)

\* Two payments are committed and a balance differs from the provisioned one.
C6_Witness ==
    /\ Len(dbPayments) = 2
    /\ \E id \in DOMAIN dbAccounts :
          dbAccounts[id].balance # provisioned[id].balance

\* The rows that WHERE id = from OR id = to matches in the committed
\* accounts table db, in ORDER BY id order.
CommittedRows(db, from, to) ==
    LET order == LockOrder(from, to)
    IN  [i \in 1 .. Len(order) |-> db[order[i]]]

\* The errors of the parameter checks.
ParameterErrors == {ErrAccountNotSpecified, ErrSameAccount, ErrInvalidAmount}

\* C7: every call that returns has the outcome and the effect of running it
\* alone, in one piece, on the store as committed when it returns (or it
\* failed in the store and changed nothing, as a call running alone can);
\* the calls are therefore serializable in the order in which they return,
\* and none computes from a stale or an uncommitted balance.
C7_Serializable ==
    [][\A p \in Procs :
          Returns(p) =>
              LET from == fromAccountID[p]
                  to == toAccountID[p]
                  e == CheckAccounts(CommittedRows(dbAccounts, from, to),
                                     from, to, amount[p])
                  r == returned'[1]
              IN  \/ /\ r.err = ErrStore \/ r.rowsErr
                     /\ UNCHANGED dbVars
                  \/ /\ r.err = e
                     /\ e # Nil
                     /\ UNCHANGED dbVars
                  \/ /\ r.err = e
                     /\ e = Nil
                     /\ dbAccounts' =
                           [dbAccounts EXCEPT
                               ![from].balance = @ - amount[p],
                               ![to].balance = @ + amount[p]]
                     /\ Len(dbPayments') = Len(dbPayments) + 1
                     /\ SubSeq(dbPayments', 1, Len(dbPayments)) = dbPayments
                     /\ Transfer(dbPayments'[Len(dbPayments')]) =
                           [FromAccountID |-> from, ToAccountID |-> to,
                            Amount |-> amount[p]]
      ]_vars

\* A request waits for a row lock whose holder has written both balances and
\* the record and has not committed yet.
C7_Witness ==
    \E p, q \in Procs :
        /\ WaitsFor(q, p)
        /\ pc[p] = "commit"
        /\ Len(txWrites[p].payments) = 1
        /\ {fromAccountID[q], toAccountID[q]} \cap DOMAIN txWrites[p].balances # {}

\* C8: the parameter checks run in the order empty id, equal ids, amount,
\* and the first that fails gives the result, whether or not the ids name
\* rows of the accounts table.
C8_ParameterCheckOrder ==
    returned # <<>> =>
        LET r == returned[1]
        IN  /\ (r.fromAccountID = "" \/ r.toAccountID = "") =>
                  r.err = ErrAccountNotSpecified
            /\ (r.fromAccountID # "" /\ r.fromAccountID = r.toAccountID) =>
                  r.err = ErrSameAccount
            /\ (r.fromAccountID # "" /\ r.toAccountID # ""
                  /\ r.fromAccountID # r.toAccountID /\ r.amount <= 0) =>
                  r.err = ErrInvalidAmount

\* Two empty ids with a non-positive amount: all three checks would fail,
\* the first one decides.
C8_Witness ==
    /\ returned # <<>>
    /\ returned[1].fromAccountID = ""
    /\ returned[1].toAccountID = ""
    /\ returned[1].amount <= 0
    /\ returned[1].err = ErrAccountNotSpecified

\* C9: a call enters a transaction only with two non-empty, distinct ids and
\* a positive amount; any other call returns in the step in which it is
\* made, without a transaction, without touching a row lock or the store.
C9_NoUnitOfWork ==
    [][ncalls' # ncalls =>
          \/ \E p \in Procs :
                /\ pc[p] = "idle"
                /\ pc'[p] = "query"
                /\ fromAccountID'[p] # ""
                /\ toAccountID'[p] # ""
                /\ fromAccountID'[p] # toAccountID'[p]
                /\ amount'[p] > 0
          \/ /\ pc' = pc
             /\ rowLock' = rowLock
             /\ txWrites' = txWrites
             /\ UNCHANGED dbVars
             /\ ~returned'[1].tx
      ]_vars

\* A call with a non-positive amount has returned InvalidAmount while
\* another transfer holds the row locks of both accounts it names.
C9_Witness ==
    /\ returned # <<>>
    /\ returned[1].err = ErrInvalidAmount
    /\ ~returned[1].tx
    /\ \E q \in Procs :
          /\ pc[q] = "commit"
          /\ \A id \in {returned[1].fromAccountID, returned[1].toAccountID} :
                id \in DOMAIN rowLock /\ q \in rowLock[id]

ValidRequest(r) ==
    /\ r.fromAccountID # ""
    /\ r.toAccountID # ""
    /\ r.fromAccountID # r.toAccountID
    /\ r.amount > 0

\* C11: a request that passes the parameter checks and names an account
\* with no row returns AccountNotFound (or the error of a failing store),
\* never CurrencyMismatch, InsufficientBalance or success, also when only
\* one of the two rows is missing.
C11_AccountNotFound ==
    returned # <<>> =>
        LET r == returned[1]
        IN  (/\ ValidRequest(r)
             /\ \/ r.fromAccountID \notin DOMAIN dbAccounts
                \/ r.toAccountID \notin DOMAIN dbAccounts) =>
                /\ r.err \in {ErrAccountNotFound, ErrStore}
                /\ r.err = ErrStore => ~r.rowsErr

\* The source exists and cannot pay, the destination has no row, the
\* SELECT was read to its end: AccountNotFound.
C11_Witness ==
    /\ returned # <<>>
    /\ returned[1].fromAccountID = "alice456"
    /\ returned[1].toAccountID = "testid1"
    /\ dbAccounts["alice456"].balance < returned[1].amount
    /\ returned[1].tx
    /\ ~returned[1].rowsErr
    /\ returned[1].err = ErrAccountNotFound

\* C12: AccountNotFound is returned only when an account named by the
\* request has no row, and a call whose locked SELECT failed while its rows
\* were read returns an unclassified error.
C12_NotFoundOnlyWhenAbsent ==
    returned # <<>> =>
        LET r == returned[1]
        IN  /\ r.err = ErrAccountNotFound =>
                  \/ r.fromAccountID \notin DOMAIN dbAccounts
                  \/ r.toAccountID \notin DOMAIN dbAccounts
            /\ r.rowsErr => r.err = ErrStore

\* C13: two existing accounts with different currencies give
\* CurrencyMismatch for every positive amount, also when the source could
\* not pay, and the store is left unchanged (unless the store itself fails).
C13_CurrencyMismatch ==
    [][\A p \in Procs :
          (/\ Returns(p)
           /\ fromAccountID[p] \in DOMAIN dbAccounts
           /\ toAccountID[p] \in DOMAIN dbAccounts
           /\ dbAccounts[fromAccountID[p]].currency
                 # dbAccounts[toAccountID[p]].currency
           /\ returned'[1].err # ErrStore
           /\ ~returned'[1].rowsErr) =>
              /\ returned'[1].err = ErrCurrencyMismatch
              /\ UNCHANGED dbVars
      ]_vars

\* alice456 (USD), holding less than the amount, sent to eve789 (RUB).
C13_Witness ==
    /\ returned # <<>>
    /\ returned[1].fromAccountID = "alice456"
    /\ returned[1].toAccountID = "eve789"
    /\ dbAccounts["alice456"].balance < returned[1].amount
    /\ returned[1].err = ErrCurrencyMismatch
    /\ dbAccounts = provisioned

\* C14: for two existing accounts of one currency (and a store that does
\* not fail) the call returns InsufficientBalance exactly when the source
\* balance read under lock minus the amount is negative, and then changes
\* nothing; a transfer of the whole balance succeeds and leaves 0.
C14_InsufficientBalance ==
    [][\A p \in Procs :
          (/\ Returns(p)
           /\ fromAccountID[p] \in DOMAIN dbAccounts
           /\ toAccountID[p] \in DOMAIN dbAccounts
           /\ dbAccounts[fromAccountID[p]].currency
                 = dbAccounts[toAccountID[p]].currency
           /\ returned'[1].err # ErrStore
           /\ ~returned'[1].rowsErr) =>
              LET read == AccountsByID(accounts[p])[fromAccountID[p]].balance
              IN  /\ returned'[1].err = ErrInsufficientBalance
                        <=> read - amount[p] < 0
                  /\ returned'[1].err = ErrInsufficientBalance =>
                        UNCHANGED dbVars
                  /\ read = amount[p] =>
                        /\ returned'[1].err = Nil
                        /\ dbAccounts'[fromAccountID[p]].balance = 0
      ]_vars

\* A transfer of exactly the whole provisioned balance of its source has
\* succeeded and the source holds 0.
C14_Witness ==
    /\ returned # <<>>
    /\ returned[1].err = Nil
    /\ provisioned[returned[1].fromAccountID].balance = returned[1].amount
    /\ dbAccounts[returned[1].fromAccountID].balance = 0
    /\ Len(dbPayments) = 1

\* The provisioned balance of account id moved by the committed payments.
LedgerBalance(id) ==
    provisioned[id].balance + SumTo(dbPayments, id) - SumFrom(dbPayments, id)

\* The sum of the balances of the rows of a list.
RECURSIVE SumBalances(_)
SumBalances(rows) ==
    IF rows = <<>> THEN 0 ELSE Head(rows).balance + SumBalances(Tail(rows))

\* C15: what a list call or a locked fetch of another call reads is the
\* committed store: every balance read is the provisioned balance moved by
\* the committed payments only, every listed payment is a committed one, and
\* a complete ListAccounts result holds as much money as was provisioned
\* (never one written balance of a transfer without the other).
C15_UncommittedInvisible ==
    [][/\ (listed' # listed /\ listed'[1].err = Nil) =>
             LET l == listed'[1]
             IN  /\ l.kind = "accounts" =>
                       /\ \A i \in 1 .. Len(l.rows) :
                             l.rows[i].balance = LedgerBalance(l.rows[i].id)
                       /\ ~l.rowsErr =>
                             SumBalances(l.rows)
                                = SumBalances(SelectAccounts(provisioned))
                 /\ l.kind = "payments" =>
                       \A i \in 1 .. Len(l.rows) :
                           \E j \in 1 .. Len(dbPayments) :
                               l.rows[i] = dbPayments[j]
       /\ \A p \in Procs :
             Len(accounts'[p]) > Len(accounts[p]) =>
                 LET row == accounts'[p][Len(accounts'[p])]
                 IN  row.balance = LedgerBalance(row.id)
      ]_vars

\* ListPayments returned the record with identifier 2 alone while the
\* transaction that inserted the record with identifier 1 is still before
\* its commit, both its balances written.
C15_Witness ==
    /\ listed # <<>>
    /\ listed[1].kind = "payments"
    /\ ~listed[1].rowsErr
    /\ Len(listed[1].rows) = 1
    /\ listed[1].rows[1].ID = 2
    /\ \E p \in Procs :
          /\ pc[p] = "commit"
          /\ txWrites[p].payments[1].ID = 1

\* Requests p and q name an account in common.
SharesAccount(p, q) ==
    {fromAccountID[p], toAccountID[p]}
        \cap {fromAccountID[q], toAccountID[q]} # {}

\* C16: a request waits only for a request with which it shares an account,
\* and a request that shares no account with any other request in a
\* transaction can always take its next step, wherever the others stand.
C16_DisjointPairsIndependent ==
    \A p \in Procs :
        pc[p] # "idle" =>
            /\ \A q \in Procs : WaitsFor(p, q) => SharesAccount(p, q)
            /\ (\A q \in Procs \ {p} :
                    pc[q] # "idle" => ~SharesAccount(p, q))
                  => ENABLED StepOK(p)

\* Two requests on disjoint pairs both hold their two row locks and stand
\* before their commit.
C16_Witness ==
    \E p, q \in Procs :
        /\ p # q
        /\ pc[p] = "commit"
        /\ pc[q] = "commit"
        /\ ~SharesAccount(p, q)

\* C17: a row lock is held only by a request inside its transaction and
\* only on a row its SELECT matched; a request that has returned holds no
\* lock.
C17_LocksInsideUnitOfWork ==
    \A id \in DOMAIN rowLock : \A p \in rowLock[id] :
        /\ pc[p] # "idle"
        /\ id \in {fromAccountID[p], toAccountID[p]}

\* A call on bob123 and an id with no row locked bob123 alone, returned
\* AccountNotFound, and another request now holds the lock on bob123.
C17_Witness ==
    /\ returned # <<>>
    /\ returned[1].fromAccountID = "bob123"
    /\ returned[1].toAccountID = "testid1"
    /\ returned[1].err = ErrAccountNotFound
    /\ ~returned[1].rowsErr
    /\ \E q \in Procs : pc[q] = "update_from" /\ q \in rowLock["bob123"]

\* A step in which the transaction of request p fails or is interrupted:
\* at the SELECT, while its rows are awaited, at a write or at the commit.
Interrupted(p) ==
    \/ QueryFails(p)
    \/ \E n \in 0 .. 2 : RowsFail(p, n)
    \/ ExecFails(p)
    \/ CommitFails(p)

AscendingID(rows) ==
    \A i, j \in 1 .. Len(rows) : i < j => rows[i].ID < rows[j].ID

\* A ListPayments call that returned nil.
PaymentsListed ==
    /\ listed # <<>>
    /\ listed[1].kind = "payments"
    /\ listed[1].err = Nil

DistinctIDs(pay) ==
    \A i, j \in 1 .. Len(pay) : i # j => pay[i].ID # pay[j].ID

\* C21: the committed payments only grow: every step keeps the records
\* committed so far as they are, a step adds at most one record and adds
\* one exactly when a call returns nil, and the identifiers of the committed
\* records are pairwise distinct.
C21_RecordsOnlyGrow ==
    [][/\ Len(dbPayments') >= Len(dbPayments)
       /\ Len(dbPayments') <= Len(dbPayments) + 1
       /\ SubSeq(dbPayments', 1, Len(dbPayments)) = dbPayments
       /\ Len(dbPayments') = Len(dbPayments) + 1
             <=> \E p \in Procs : Returns(p) /\ returned'[1].err = Nil
       /\ DistinctIDs(dbPayments')
      ]_vars

\* Two records are committed, the first still in place after the second
\* commit and after a list call that followed it.
C21_Witness ==
    /\ Len(dbPayments) = 2
    /\ dbPayments[1].ID # dbPayments[2].ID
    /\ dbPayments[1].FromAccountID # dbPayments[2].FromAccountID
    /\ listed # <<>>
    /\ listed[1].kind = "payments"
    /\ Len(listed[1].rows) = 2

\* C22: a request equal to one already committed is carried out again: when
\* the store does not fail and the source read under lock can pay, the call
\* returns nil, adds a record with an identifier no committed record has,
\* and moves the amount once more.
C22_NoDeduplication ==
    [][\A p \in Procs :
          (/\ Returns(p)
           /\ \E i \in 1 .. Len(dbPayments) :
                 Transfer(dbPayments[i])
                    = [FromAccountID |-> fromAccountID[p],
                       ToAccountID |-> toAccountID[p],
                       Amount |-> amount[p]]
           /\ returned'[1].err # ErrStore
           /\ ~returned'[1].rowsErr
           /\ dbAccounts[fromAccountID[p]].balance >= amount[p]) =>
              /\ returned'[1].err = Nil
              /\ Len(dbPayments') = Len(dbPayments) + 1
              /\ \A i \in 1 .. Len(dbPayments) :
                    dbPayments[i].ID # dbPayments'[Len(dbPayments')].ID
              /\ dbAccounts'[fromAccountID[p]].balance
                    = dbAccounts[fromAccountID[p]].balance - amount[p]
              /\ dbAccounts'[toAccountID[p]].balance
                    = dbAccounts[toAccountID[p]].balance + amount[p]
      ]_vars

\* The same transfer from bob123 to alice456 is committed twice, under two
\* identifiers, and the amount has moved twice.
C22_Witness ==
    /\ Len(dbPayments) = 2
    /\ Transfer(dbPayments[1]) = Transfer(dbPayments[2])
    /\ dbPayments[1].ID # dbPayments[2].ID
    /\ dbPayments[1].FromAccountID = "bob123"
    /\ dbAccounts["bob123"].balance
          = provisioned["bob123"].balance - 2 * dbPayments[1].Amount
    /\ dbAccounts["alice456"].balance
          = provisioned["alice456"].balance + 2 * dbPayments[1].Amount

\* C23: the body of a successful GET /payments holds two items for each
\* record ListPayments returned, in the order of the records: the outgoing
\* item (account the source, to_account the destination), then the
\* incoming item (account the destination, from_account the source), both
\* with the amount of the record; a list read to its end of k committed
\* records gives 2k items.
C23_PaymentListView ==
    [][(/\ <<listed, listResponse>>' # <<listed, listResponse>>
        /\ listed'[1].kind = "payments"
        /\ listed'[1].err = Nil) =>
          LET rows == listed'[1].rows
              resp == listResponse'[1]
              items == resp.body.payments
          IN  /\ resp.code = 200
              /\ Len(items) = 2 * Len(rows)
              /\ \A k \in 1 .. Len(rows) :
                    /\ items[2 * k - 1].direction = "outgoing"
                    /\ items[2 * k - 1].account = rows[k].FromAccountID
                    /\ items[2 * k - 1].to_account = rows[k].ToAccountID
                    /\ items[2 * k - 1].from_account = ""
                    /\ items[2 * k - 1].amount = rows[k].Amount
                    /\ items[2 * k].direction = "incoming"
                    /\ items[2 * k].account = rows[k].ToAccountID
                    /\ items[2 * k].from_account = rows[k].FromAccountID
                    /\ items[2 * k].to_account = ""
                    /\ items[2 * k].amount = rows[k].Amount
              /\ ~listed'[1].rowsErr => Len(items) = 2 * Len(dbPayments)
      ]_vars

\* Two committed transfers of different sources are listed as four items.
C23_Witness ==
    /\ listResponse # <<>>
    /\ listResponse[1].code = 200
    /\ "payments" \in DOMAIN listResponse[1].body
    /\ Len(listResponse[1].body.payments) = 4
    /\ Len(dbPayments) = 2
    /\ listResponse[1].body.payments[1].account
          # listResponse[1].body.payments[3].account

\* A step in which a call of SendPayment returns: from its transaction, or
\* at once (parameter checks, s.db.Begin).
SendPaymentReturns ==
    \/ \E p \in Procs : Returns(p)
    \/ ncalls' = ncalls + 1 /\ pc' = pc

\* The response tabulated for the outcome err of SendPayment.
TabulatedResponse(err) ==
    IF err = Nil
        THEN [code |-> 200, body |-> [status |-> "Payment successfully sent"]]
    ELSE IF err = ErrAccountNotSpecified
        THEN [code |-> 400, body |-> [error |-> "two accounts must be specified"]]
    ELSE IF err = ErrSameAccount
        THEN [code |-> 403,
              body |-> [error |-> "cannot send a payment to the same account"]]
    ELSE IF err = ErrInvalidAmount
        THEN [code |-> 403, body |-> [error |-> "invalid amount"]]
    ELSE IF err = ErrCurrencyMismatch
        THEN [code |-> 403,
              body |-> [error |-> "accounts have different currencies"]]
    ELSE IF err = ErrInsufficientBalance
        THEN [code |-> 403, body |-> [error |-> "insufficient balance"]]
    ELSE IF err = ErrAccountNotFound
        THEN [code |-> 404, body |-> [error |-> "account(s) not found"]]
    ELSE [code |-> 500, body |-> [error |-> "internal server error"]]

\* C24: the response to POST /payments is the tabulated one for the error
\* SendPayment returned (200 and the success status for nil only, 500 and
\* "internal server error" for an error outside the table); a body that
\* does not decode gives 400 "unable to parse request" without a call.
C24_ResponseMapping ==
    [][/\ SendPaymentReturns =>
             sendResponse' = <<TabulatedResponse(returned'[1].err)>>
       /\ (~SendPaymentReturns /\ sendResponse' # sendResponse) =>
             /\ sendResponse'
                   = <<[code |-> 400,
                        body |-> [error |-> "unable to parse request"]]>>
             /\ UNCHANGED <<returned, dbAccounts, dbPayments>>
      ]_vars

\* A call failed in the store inside its transaction and the response is
\* 500 with the generic message.
C24_Witness ==
    /\ returned # <<>>
    /\ returned[1].err = ErrStore
    /\ returned[1].tx
    /\ sendResponse = <<[code |-> 500,
                         body |-> [error |-> "internal server error"]]>>

\* C25: of concurrent transfers debiting bob123 (none crediting it, store
\* not failing) each returns nil or InsufficientBalance, the latter exactly
\* when what the committed transfers have left of the provisioned balance
\* is less than its amount; the committed transfers never add up to more
\* than was provisioned, and a transfer of the whole provisioned balance
\* that returns nil is the only one committed, every other call then
\* returning InsufficientBalance.
C25_NoDoubleSpend ==
    [][\A p \in Procs :
          Returns(p) =>
              LET left == provisioned["bob123"].balance
                             - SumFrom(dbPayments, "bob123")
              IN  /\ returned'[1].err \in {Nil, ErrInsufficientBalance}
                  /\ returned'[1].err = ErrInsufficientBalance
                        <=> left < amount[p]
                  /\ SumFrom(dbPayments', "bob123")
                        <= provisioned["bob123"].balance
                  /\ (/\ returned'[1].err = Nil
                      /\ amount[p] = provisioned["bob123"].balance) =>
                        Len(dbPayments') = 1
                  /\ (\E i \in 1 .. Len(dbPayments) :
                         dbPayments[i].Amount
                            = provisioned["bob123"].balance) =>
                        returned'[1].err = ErrInsufficientBalance
      ]_vars

\* All the concurrent calls have returned: one transfer of the whole
\* balance of bob123 is committed and the call that returned last got
\* InsufficientBalance.
C25_Witness ==
    /\ ncalls = NumProcs
    /\ \A p \in Procs : pc[p] = "idle"
    /\ Len(dbPayments) = 1
    /\ dbPayments[1].Amount = provisioned["bob123"].balance
    /\ dbAccounts["bob123"].balance = 0
    /\ returned # <<>>
    /\ returned[1].err = ErrInsufficientBalance

\* C26: no step creates or deletes an account or changes the id or the
\* currency of one; a balance changes only in the step in which a call
\* returns, and then only the balances of the source and the destination
\* of that call; every committed record names two distinct accounts that
\* exist and have one currency.
C26_Frame ==
    [][/\ DOMAIN dbAccounts' = DOMAIN dbAccounts
       /\ \A id \in DOMAIN dbAccounts :
             /\ dbAccounts'[id].id = dbAccounts[id].id
             /\ dbAccounts'[id].currency = dbAccounts[id].currency
             /\ dbAccounts'[id].balance # dbAccounts[id].balance =>
                   \E p \in Procs :
                       /\ Returns(p)
                       /\ id \in {fromAccountID[p], toAccountID[p]}
       /\ \A i \in 1 .. Len(dbPayments') :
             LET rec == dbPayments'[i]
             IN  /\ rec.FromAccountID # rec.ToAccountID
                 /\ rec.FromAccountID \in DOMAIN dbAccounts
                 /\ rec.ToAccountID \in DOMAIN dbAccounts
                 /\ dbAccounts[rec.FromAccountID].currency
                       = dbAccounts[rec.ToAccountID].currency
      ]_vars

\* A transfer between alice456 and bob123 is committed, eve789 holds what
\* was provisioned, and the call that returned last named eve789 and failed.
C26_Witness ==
    /\ Len(dbPayments) = 1
    /\ dbAccounts["alice456"].balance # provisioned["alice456"].balance
    /\ dbAccounts["bob123"].balance # provisioned["bob123"].balance
    /\ dbAccounts["eve789"] = provisioned["eve789"]
    /\ returned # <<>>
    /\ returned[1].toAccountID = "eve789"
    /\ returned[1].err = ErrCurrencyMismatch
====
